---- MODULE Spec2Model ----
(***************************************************************************)
(* flet-tray: the menu normaliser, the native menu builder, the action     *)
(* registry with its two dispatch paths (a pystray menu item callback and  *)
(* the page's extension event handler) and the TrayApp session, modelled   *)
(* from src/flet_tray/tray.py.                                             *)
(*                                                                         *)
(* Python values are modelled as follows.                                  *)
(*   - None and an absent dict key are the token None: the code reads      *)
(*     every key with dict.get, which gives None for both.                 *)
(*   - A Python bool is one of the tokens PyTrue / PyFalse while it sits   *)
(*     in a menu dict; a MenuNode holds the result of bool(...) as a       *)
(*     BOOLEAN.                                                            *)
(*   - An absent, None or empty child list is <<>>: the code tests child   *)
(*     lists only with "not child_data" and "child_data or []".            *)
(*   - A callback is a record [kind, id, app]; user callbacks are "f"      *)
(*     (returns) and "g" (raises an Exception); the two lambdas a TrayApp  *)
(*     registers carry the index of the TrayApp that made them.            *)
(*   - "raises" means an Exception subclass, which is what the code's      *)
(*     "except Exception" clauses catch.                                   *)
(***************************************************************************)
EXTENDS Integers, Sequences, FiniteSets, TLC

VARIABLES
    _ACTIONS,   \* the process-wide registry: a function name -> callback
    apps,       \* the TrayApp objects constructed so far, in order
    page,       \* the Flet page: its hooks and the handler chain on on_extension_event
    last,       \* what the last operation did (observation of its call and result)
    raw,        \* menu pipeline: the menu description given
    nodes,      \* menu pipeline: _normalise_menu(raw)
    emitted,    \* menu pipeline: menu_to_dict(nodes)
    renodes,    \* menu pipeline: _normalise_menu(emitted)
    stage       \* menu pipeline: how far the pipeline has run

vars == <<_ACTIONS, apps, page, last, raw, nodes, emitted, renodes, stage>>

sysvars == <<_ACTIONS, apps, page, last>>
menuvars == <<raw, nodes, emitted, renodes, stage>>

(***************************************************************************)
(* Bounds.                                                                 *)
(***************************************************************************)
MaxLen == 2     \* longest top-level menu description of the menu pipeline
MaxApps == 1    \* TrayApp constructions, next to the page's events
MaxBuilds == 2  \* TrayApp constructions, where only menus are built and activated
MaxChain == 2   \* register_extension calls on the page
MaxStarts == 2  \* native loops started, and worker threads spawned, per session

(***************************************************************************)
(* Python values.                                                          *)
(***************************************************************************)
None == "<None>"
PyTrue == "<True>"
PyFalse == "<False>"
Unhashable == "<unhashable>"    \* a value such as a list: truthy, not a dict key

EXTENSION_NAME == "tray"

\* Python truthiness of a str / None / bool value.
Truthy(v) == v \notin {None, "", PyFalse}

\* bool(v)
py_bool(v) == Truthy(v)

\* a or b
Or(a, b) == IF Truthy(a) THEN a ELSE b

\* The Python bool object of a BOOLEAN.
PyOf(b) == IF b THEN PyTrue ELSE PyFalse

(***************************************************************************)
(* Menu descriptions and MenuNode.                                         *)
(***************************************************************************)
RawItem(text, label, title, action, disabled, checked, icon, items, children) ==
    [text |-> text, label |-> label, title |-> title, action |-> action,
     disabled |-> disabled, checked |-> checked, icon |-> icon,
     items |-> items, children |-> children]

MenuNode(text, action, disabled, checked, children, icon) ==
    [text |-> text, action |-> action, disabled |-> disabled,
     checked |-> checked, children |-> children, icon |-> icon]

\* Mutant: the label alias is tried before text.
RECURSIVE _normalise_menu_label_first(_)
_normalise_menu_label_first(items) ==
    [i \in 1..Len(items) |->
        LET item == items[i]
            label == Or(item.label, Or(item.text, Or(item.title, "Menu item")))
            child_data == IF item.items # <<>> THEN item.items ELSE item.children
        IN  MenuNode(label, item.action, py_bool(item.disabled),
                     py_bool(item.checked), _normalise_menu_label_first(child_data),
                     item.icon)]

RECURSIVE _normalise_menu(_)
_normalise_menu(items) ==
    [i \in 1..Len(items) |->
        LET item == items[i]
            label == Or(item.text, Or(item.label, Or(item.title, "Menu item")))
            child_data == IF item.items # <<>> THEN item.items ELSE item.children
        IN  MenuNode(label, item.action, py_bool(item.disabled),
                     py_bool(item.checked), _normalise_menu(child_data), item.icon)]

\* Mutant: the action key is left out of the emitted dict.
RECURSIVE menu_to_dict_no_action(_)
menu_to_dict_no_action(ns) ==
    [i \in 1..Len(ns) |->
        LET node == ns[i]
        IN  RawItem(node.text, None, None, None, PyOf(node.disabled),
                    PyOf(node.checked), None,
                    IF node.children # <<>> THEN menu_to_dict_no_action(node.children)
                    ELSE <<>>,
                    <<>>)]

RECURSIVE menu_to_dict(_)
menu_to_dict(ns) ==
    [i \in 1..Len(ns) |->
        LET node == ns[i]
        IN  RawItem(node.text, None, None, node.action, PyOf(node.disabled),
                    PyOf(node.checked), None,
                    IF node.children # <<>> THEN menu_to_dict(node.children) ELSE <<>>,
                    <<>>)]

(***************************************************************************)
(* The menu descriptions the menu pipeline is run on.  The fields of a     *)
(* record are read independently of one another by _normalise_menu, so the *)
(* records vary one group of fields at a time: the three label aliases,    *)
(* the action / flags / icon, and the two child-list keys (two levels).    *)
(***************************************************************************)
Plain(text, label, title) ==
    RawItem(text, label, title, None, None, None, None, <<>>, <<>>)

LabelRecs ==
    { Plain(t, l, ti) : t \in {None, "", "Open"}, l \in {None, "Lbl"}, ti \in {None, "Ttl"} }

FieldRecs ==
    { RawItem("T", None, None, a, fl[1], fl[2], ic, <<>>, <<>>) :
        a \in {None, "a"},
        fl \in { <<None, None>>, <<PyTrue, PyFalse>>, <<PyFalse, PyTrue>> },
        ic \in {None, "i.png"} }

Kid1 == RawItem("K", None, None, "a", None, PyTrue, None, <<>>, <<>>)
Kid2 == RawItem("", "Lk", None, None, PyTrue, None, None, <<>>, <<>>)
Deep == RawItem(None, None, "D", "d", None, None, None, <<>>, <<Kid2, Kid1>>)
Deep2 == RawItem("D2", None, None, "d", PyFalse, None, None, <<Kid1>>, <<>>)

NestRecs ==
    { RawItem(hd[1], None, hd[2], "p", None, None, None, kids[1], kids[2]) :
        hd \in { <<"P", None>>, <<None, "Pt">> },
        kids \in { << <<Kid1>>, <<>> >>, << <<>>, <<Kid2>> >>, << <<Kid1>>, <<Kid2>> >>,
                   << <<Kid1, Deep2>>, <<>> >>, << <<>>, <<Deep>> >> } }

RawRecs == LabelRecs \cup FieldRecs \cup NestRecs

SeqsUpTo(S, n) == UNION { [1..k -> S] : k \in 0..n }

RawMenus == SeqsUpTo(RawRecs, MaxLen)

(***************************************************************************)
(* The menu pipeline: normalise, emit, normalise again.                    *)
(***************************************************************************)
Normalise ==
    /\ stage = "input"
    /\ nodes' = _normalise_menu(raw)
    /\ stage' = "normalised"
    /\ UNCHANGED <<raw, emitted, renodes, sysvars>>

Emit ==
    /\ stage = "normalised"
    /\ emitted' = menu_to_dict(nodes)
    /\ stage' = "emitted"
    /\ UNCHANGED <<raw, nodes, renodes, sysvars>>

Renormalise ==
    /\ stage = "emitted"
    /\ renodes' = _normalise_menu(emitted)
    /\ stage' = "renormalised"
    /\ UNCHANGED <<raw, nodes, emitted, sysvars>>

(***************************************************************************)
(* Callbacks and the registry.                                             *)
(***************************************************************************)
UserFn(id) == [kind |-> "user", id |-> id, app |-> 0]
F == UserFn("f")                                          \* returns normally
G == UserFn("g")                                          \* raises an Exception
Lambda(which, k) == [kind |-> "lambda", id |-> which, app |-> k]
NoFn == [kind |-> "none", id |-> "", app |-> 0]           \* Python None
NotCallable == [kind |-> "noncallable", id |-> "", app |-> 0]

callable(fn) == fn.kind \in {"user", "lambda"}

\* Whether calling fn raises.  The TrayApp lambdas call on_open / on_exit, which
\* return normally here.
Raises(fn) == fn.kind = "user" /\ fn.id = "g"

EmptyDict == [n \in {} |-> NoFn]

\* d.get(k)
Get(d, k) == IF k \in DOMAIN d THEN d[k] ELSE NoFn

\* d[k] = v
Put(d, k, v) == [n \in DOMAIN d \cup {k} |-> IF n = k THEN v ELSE d[n]]

\* del d[k]
Del(d, k) == [n \in DOMAIN d \ {k} |-> d[n]]

\* Mutant: no check of the name or of the callback.
register_action_unchecked(reg, name, fn) == Put(reg, name, fn)

\* The registry after register_action(name, fn).
register_action(reg, name, fn) ==
    IF ~Truthy(name) \/ ~callable(fn) THEN reg ELSE Put(reg, name, fn)

\* Mutant: the registry object itself is returned.
registered_actions_shared(reg) == [value |-> reg, shared |-> TRUE]

\* registered_actions(): the mapping returned, and whether it is the registry
\* object itself (shared) or a new dict.
registered_actions(reg) == [value |-> reg, shared |-> FALSE]

(***************************************************************************)
(* Payloads, events and observations of calls.                             *)
(***************************************************************************)
NoData == [t |-> "none", s |-> "", action |-> None]
Str(s) == [t |-> "str", s |-> s, action |-> None]
Dict(a) == [t |-> "dict", s |-> "", action |-> a]         \* {"action": a}; {} when a is None

JsonA == "{\"action\": \"a\"}"
JsonEmpty == "{}"
JsonStr == "\"a\""
JsonList == "{\"action\": [\"a\"]}"

\* json.loads(s): [ok, value]; ok is FALSE when it raises.
json_loads(s) ==
    CASE s = JsonA -> [ok |-> TRUE, value |-> Dict("a")]
      [] s = JsonEmpty -> [ok |-> TRUE, value |-> Dict(None)]
      [] s = JsonStr -> [ok |-> TRUE, value |-> Str("a")]
      [] s = JsonList -> [ok |-> TRUE, value |-> Dict(Unhashable)]
      [] OTHER -> [ok |-> FALSE, value |-> NoData]

Event(ext, name, action, data) ==
    [extension_name |-> ext, name |-> name, action |-> action, data |-> data]

NoEvt == Event(None, None, None, NoData)

\* One call made during a dispatch: who = "action" is a registry callback called
\* with arg, who = "prev" is the previous handler called with evt; by is the level
\* of the handler making the call (0 for a menu item), threw whether it raised.
Call(who, by, fn, arg, evt, threw) ==
    [who |-> who, by |-> by, fn |-> fn, arg |-> arg, evt |-> evt, threw |-> threw]

Outcome(trace, raised, lookups) ==
    [trace |-> trace, raised |-> raised, lookups |-> lookups]

\* Whether a registry callback raised among the calls of trace.
Threw(trace) == \E i \in DOMAIN trace : trace[i].who = "action" /\ trace[i].threw

(***************************************************************************)
(* _build_pystray_menu and the menu item callback _cb.                     *)
(***************************************************************************)
MenuItem(text, kind, submenu, enabled, fn, name, has_checked, checked) ==
    [text |-> text, kind |-> kind, submenu |-> submenu, enabled |-> enabled,
     fn |-> fn, name |-> name, has_checked |-> has_checked, checked |-> checked]

\* Mutant: the callback is looked up under the node's text.
RECURSIVE _build_pystray_menu_by_text(_, _)
_build_pystray_menu_by_text(ns, reg) ==
    [i \in 1..Len(ns) |->
        LET node == ns[i]
        IN  IF node.children # <<>>
            THEN MenuItem(node.text, "submenu",
                          _build_pystray_menu_by_text(node.children, reg),
                          ~node.disabled, NoFn, None, FALSE, FALSE)
            ELSE MenuItem(node.text, "action", <<>>, ~node.disabled,
                          Get(reg, Or(node.text, "")), node.action,
                          node.checked, ns[Len(ns)].checked)]

\* Mutant: a node with children gets a callback like a leaf.
RECURSIVE _build_pystray_menu_flat(_, _)
_build_pystray_menu_flat(ns, reg) ==
    [i \in 1..Len(ns) |->
        LET node == ns[i]
        IN  MenuItem(node.text, "action", <<>>, ~node.disabled,
                     Get(reg, Or(node.action, "")), node.action,
                     node.checked, ns[Len(ns)].checked)]

RECURSIVE _build_pystray_menu(_, _)
_build_pystray_menu(ns, reg) ==
    [i \in 1..Len(ns) |->
        LET node == ns[i]
        IN  IF node.children # <<>>
            THEN MenuItem(node.text, "submenu", _build_pystray_menu(node.children, reg),
                          ~node.disabled, NoFn, None, FALSE, FALSE)
            ELSE MenuItem(node.text, "action", <<>>, ~node.disabled,
                          Get(reg, Or(node.action, "")), node.action,
                          \* checked_cb closes over the loop variable: it reads the
                          \* list's last node when called
                          node.checked, ns[Len(ns)].checked)]

\* Mutant: no "if fn" and no try / except.
_cb_unguarded(fn, name) ==
    IF fn # NoFn
    THEN Outcome(<<Call("action", 0, fn, Dict(name), NoEvt, Raises(fn))>>, Raises(fn), 0)
    ELSE Outcome(<<>>, TRUE, 0)

\* _cb with fn and name bound: the calls it makes and whether it raises.
_cb(fn, name) ==
    IF fn # NoFn
    THEN Outcome(<<Call("action", 0, fn, Dict(name), NoEvt, Raises(fn))>>, FALSE, 0)
    ELSE Outcome(<<>>, FALSE, 0)

\* The paths (index sequences) of the items of a built menu, and the item at a path.
RECURSIVE Paths(_)
Paths(menu) ==
    UNION { {<<i>>} \cup { <<i>> \o p : p \in Paths(menu[i].submenu) } : i \in 1..Len(menu) }

RECURSIVE ItemAt(_, _)
ItemAt(menu, path) ==
    IF Len(path) = 1 THEN menu[path[1]] ELSE ItemAt(menu[path[1]].submenu, Tail(path))

RECURSIVE NodeAt(_, _)
NodeAt(ns, path) ==
    IF Len(path) = 1 THEN ns[path[1]] ELSE NodeAt(ns[path[1]].children, Tail(path))

\* pystray calls an item's callback when the item is activated; a submenu item
\* holds a Menu, not a callback.
Activatable(menu) == { p \in Paths(menu) : ItemAt(menu, p).kind = "action" }

(***************************************************************************)
(* register_extension's handler _handle_ext.  The page holds a chain of    *)
(* page.depth handlers: the handler of level d has as prev_handler the     *)
(* handler of level d - 1, and level 0 is what was on the page at first:   *)
(* page.base is "None" (not callable), "ok" (a handler that returns) or    *)
(* "raises" (a handler that raises an Exception).                          *)
(***************************************************************************)
\* Mutant: a handler installed by an earlier register_extension is not taken as
\* the previous handler.
PrevCallable_base_only(d, base) == base # "None"

PrevCallable(d, base) == d - 1 >= 1 \/ base # "None"

\* The payload after the one JSON-decode attempt.
Decoded(data) ==
    IF data.t = "str"
    THEN LET r == json_loads(data.s) IN IF r.ok THEN r.value ELSE data
    ELSE data

\* Mutant: the payload's action key is preferred to the event's attributes.
ActionName_payload_first(evt) ==
    LET action_name == Or(evt.name, evt.action)
        payload == Decoded(evt.data)
    IN  IF payload.t = "dict" /\ Truthy(payload.action) THEN payload.action ELSE action_name

\* The action name _handle_ext resolves for an event it treats as its own.
ActionName(evt) ==
    LET action_name == Or(evt.name, evt.action)
        payload == Decoded(evt.data)
    IN  IF payload.t = "dict" /\ ~Truthy(action_name) THEN payload.action ELSE action_name

\* Mutant: the callback is called outside any try / except.
CallAction_no_try(fn, payload, d) ==
    IF fn # NoFn
    THEN Outcome(<<Call("action", d, fn, payload, NoEvt, Raises(fn))>>, Raises(fn), 1)
    ELSE Outcome(<<>>, FALSE, 1)

\* _handle_ext's call of the callback found, inside its try / except: the calls made
\* and whether an exception leaves the block.
CallAction(fn, payload, d) ==
    IF fn # NoFn
    THEN Outcome(<<Call("action", d, fn, payload, NoEvt, Raises(fn))>>, FALSE, 1)
    ELSE Outcome(<<>>, FALSE, 1)

\* Mutant: the extension name is not looked at.
Own_always(evt) == TRUE

\* Whether _handle_ext treats evt as its own (dispatches it) or forwards it.
Own(evt) == ~(Truthy(evt.extension_name) /\ evt.extension_name # EXTENSION_NAME)

RECURSIVE _handle_ext(_, _, _, _)
_handle_ext(d, base, evt, reg) ==
    IF d = 0
    THEN Outcome(<<>>, base = "raises", 0)
    ELSE
    LET prev == _handle_ext(d - 1, base, evt, reg)
        prevCall == Call("prev", d, NoFn, NoData, evt, prev.raised)
    IN  IF ~Own(evt)
        THEN IF PrevCallable(d, base)
             THEN Outcome(<<prevCall>> \o prev.trace, prev.raised, prev.lookups)
             ELSE Outcome(<<>>, FALSE, 0)
        ELSE
        LET payload == Decoded(evt.data)
            key == Or(ActionName(evt), "")
            own == CallAction(Get(reg, key), payload, d)
        IN  IF key = Unhashable
            THEN Outcome(<<>>, TRUE, 1)     \* dict.get raises TypeError, outside any try
            ELSE IF own.raised
            THEN own
            ELSE IF PrevCallable(d, base)
            THEN Outcome(own.trace \o <<prevCall>> \o prev.trace, FALSE, 1 + prev.lookups)
            ELSE own

(***************************************************************************)
(* Observation of the last operation.                                      *)
(***************************************************************************)
NoObs ==
    [op |-> "none", name |-> None, fn |-> NoFn, app |-> 0, path |-> <<>>,
     evt |-> NoEvt, trace |-> <<>>, raised |-> FALSE, lookups |-> 0,
     before |-> EmptyDict, after |-> None, snap |-> EmptyDict, shared |-> FALSE,
     pre |-> "", info |-> "", args |-> <<>>, calls |-> <<>>, count |-> 0]

\* The observation record of operation op: before is the registry it starts from,
\* after is the name dispatched by the operation just before it when that was a
\* dispatch in which the callback raised (None otherwise).
Obs(op) ==
    [NoObs EXCEPT !.op = op, !.before = _ACTIONS,
                  !.after = IF last.op \in {"menu", "event"} /\ Threw(last.trace)
                            THEN last.name ELSE None]

(***************************************************************************)
(* Inputs.                                                                 *)
(***************************************************************************)
\* The (name, fn) arguments of register_action.
Registrations ==
    { <<"a", F>>, <<"a", G>>, <<"open", G>>, <<"", F>>, <<"a", NotCallable>>, <<"open", NoFn>> }

\* The actions argument of register_extension: (name, fn) pairs in dict order.
ActionDicts ==
    { <<>>, << <<"a", F>> >>, << <<"open", G>>, <<"a", G>>, <<"", F>> >> }

\* The menu argument of TrayApp: none, or a menu with two leaves and a submenu
\* whose node carries an action of its own.
NestedMenu ==
    << RawItem("Hello", None, None, "a", None, None, None, <<>>, <<>>),
       RawItem(None, "Plain", None, None, None, None, None, <<>>, <<>>),
       RawItem("More", None, None, "exit", None, None, None,
               << RawItem("Open", None, None, "open", None, PyTrue, None, <<>>, <<>>) >>,
               <<>>) >>

AppMenus == { <<>>, NestedMenu }

DataVals ==
    { NoData, Str("junk"), Str(JsonA), Str(JsonStr), Str(JsonList),
      Dict("a"), Dict(None), Dict(Unhashable) }

\* The events delivered.  Own events: every payload shape with no name attribute,
\* then the name and action attributes against a payload that names an action;
\* events with no or an empty extension name; events of another extension.
Events ==
    { Event(EXTENSION_NAME, None, None, d) : d \in DataVals }
    \cup { Event(EXTENSION_NAME, n, a, d) :
              n \in {None, "", "a"}, a \in {None, "open"}, d \in {NoData, Dict("a")} }
    \cup { Event(EXTENSION_NAME, "a", None, Str("junk")) }
    \cup { Event(x, n, None, NoData) : x \in {None, ""}, n \in {None, "a"} }
    \cup { Event("other", n, None, d) : n \in {None, "a"}, d \in {NoData, Dict("a")} }

(***************************************************************************)
(* The registry operations.                                                *)
(***************************************************************************)
RegisterAction(name, fn) ==
    /\ _ACTIONS' = register_action(_ACTIONS, name, fn)
    /\ last' = [Obs("register_action") EXCEPT !.name = name, !.fn = fn]
    /\ UNCHANGED <<apps, page, menuvars>>

RegisteredActions ==
    LET r == registered_actions(_ACTIONS)
    IN  /\ last' = [Obs("registered_actions") EXCEPT !.snap = r.value, !.shared = r.shared]
        /\ UNCHANGED <<_ACTIONS, apps, page, menuvars>>

\* The caller changes the mapping registered_actions returned: it deletes a key or
\* stores a value.  When that mapping is the registry object, the registry changes.
MutateSnapshot(name, fn) ==
    /\ last.op \in {"registered_actions", "mutate_snapshot"}
    /\ LET m == IF fn = NoFn THEN Del(last.snap, name) ELSE Put(last.snap, name, fn)
       IN  /\ last' = [Obs("mutate_snapshot") EXCEPT !.snap = m, !.shared = last.shared,
                                                     !.name = name, !.fn = fn]
           /\ _ACTIONS' = IF last.shared THEN m ELSE _ACTIONS
    /\ UNCHANGED <<apps, page, menuvars>>

(***************************************************************************)
(* TrayApp.                                                                *)
(***************************************************************************)
DefaultNodes ==
    << MenuNode("Open", "open", FALSE, FALSE, <<>>, None),
       MenuNode("Exit", "exit", FALSE, FALSE, <<>>, None) >>

NewIcon == [state |-> "created", loops |-> 0, threads |-> 0, visible |-> FALSE]

\* Mutant: "open" and "exit" are registered only when the registry has no entry
\* of that name.
TrayApp_keep_registered(menu, icon_fails) ==
    LET k == Len(apps) + 1
        normalised == _normalise_menu(menu)
        menu_nodes == IF normalised = <<>> THEN DefaultNodes ELSE normalised
        reg1 == IF "open" \in DOMAIN _ACTIONS THEN _ACTIONS
                ELSE register_action(_ACTIONS, "open", Lambda("open", k))
        reg == IF "exit" \in DOMAIN reg1 THEN reg1
               ELSE register_action(reg1, "exit", Lambda("exit", k))
        built == _build_pystray_menu(menu_nodes, reg)
    IN  /\ _ACTIONS' = reg
        /\ apps' = Append(apps,
                     IF icon_fails
                     THEN [status |-> "failed", menu_nodes |-> <<>>,
                           menu |-> <<>>, icon |-> NewIcon]
                     ELSE [status |-> "ok", menu_nodes |-> menu_nodes,
                           menu |-> built, icon |-> NewIcon])
        /\ last' = [Obs("TrayApp") EXCEPT !.app = k, !.raised = icon_fails]
        /\ UNCHANGED <<page, menuvars>>

\* TrayApp.__init__(menu=menu); icon_fails: pystray.Icon raises, and so does __init__.
TrayApp(menu, icon_fails) ==
    LET k == Len(apps) + 1
        normalised == _normalise_menu(menu)
        menu_nodes == IF normalised = <<>> THEN DefaultNodes ELSE normalised
        reg == register_action(register_action(_ACTIONS, "open", Lambda("open", k)),
                               "exit", Lambda("exit", k))
        built == _build_pystray_menu(menu_nodes, reg)
    IN  /\ _ACTIONS' = reg
        /\ apps' = Append(apps,
                     IF icon_fails
                     THEN [status |-> "failed", menu_nodes |-> <<>>,
                           menu |-> <<>>, icon |-> NewIcon]
                     ELSE [status |-> "ok", menu_nodes |-> menu_nodes,
                           menu |-> built, icon |-> NewIcon])
        /\ last' = [Obs("TrayApp") EXCEPT !.app = k, !.raised = icon_fails]
        /\ UNCHANGED <<page, menuvars>>

\* Mutant: the callback is looked up in the registry when the item is activated.
MenuActivate_late_bound(k, path) ==
    /\ apps[k].status = "ok"
    /\ path \in Activatable(apps[k].menu)
    /\ LET item == ItemAt(apps[k].menu, path)
           r == _cb(Get(_ACTIONS, Or(item.name, "")), item.name)
       IN  last' = [Obs("menu") EXCEPT !.app = k, !.path = path, !.name = item.name,
                                       !.fn = item.fn, !.trace = r.trace,
                                       !.raised = r.raised, !.lookups = r.lookups]
    /\ UNCHANGED <<_ACTIONS, apps, page, menuvars>>

\* pystray activates the item at path of the menu of session k.
MenuActivate(k, path) ==
    /\ apps[k].status = "ok"
    /\ path \in Activatable(apps[k].menu)
    /\ LET item == ItemAt(apps[k].menu, path)
           r == _cb(item.fn, item.name)
       IN  last' = [Obs("menu") EXCEPT !.app = k, !.path = path, !.name = item.name,
                                       !.fn = item.fn, !.trace = r.trace,
                                       !.raised = r.raised, !.lookups = r.lookups]
    /\ UNCHANGED <<_ACTIONS, apps, page, menuvars>>

(***************************************************************************)
(* register_extension and the events of the page.                          *)
(***************************************************************************)
RECURSIVE RegisterAll(_, _)
RegisterAll(reg, pairs) ==
    IF pairs = <<>> THEN reg
    ELSE RegisterAll(register_action(reg, Head(pairs)[1], Head(pairs)[2]), Tail(pairs))

\* register_extension(page, actions); import_fails: page.import_extension raises.
RegisterExtension(actions, import_fails) ==
    /\ page.hooks => page.depth < MaxChain
    /\ _ACTIONS' = RegisterAll(_ACTIONS, actions)
    /\ page' = IF page.hooks THEN [page EXCEPT !.depth = @ + 1] ELSE page
    /\ last' = [Obs("register_extension") EXCEPT
                    !.info = IF ~page.hooks THEN "no hooks"
                             ELSE IF import_fails THEN "import failed" ELSE "imported"]
    /\ UNCHANGED <<apps, menuvars>>

\* The page delivers evt to page.on_extension_event, the handler installed last.
ExtensionEvent(evt) ==
    /\ page.depth >= 1
    /\ LET r == _handle_ext(page.depth, page.base, evt, _ACTIONS)
       IN  last' = [Obs("event") EXCEPT !.evt = evt, !.trace = r.trace,
                                        !.name = IF Own(evt) THEN Or(ActionName(evt), "")
                                                 ELSE None,
                                        !.raised = r.raised, !.lookups = r.lookups]
    /\ UNCHANGED <<_ACTIONS, apps, page, menuvars>>

(***************************************************************************)
(* The session's lifecycle.  The native icon is pystray's: whether it has  *)
(* run_detached, and whether a native call raises, is the environment's    *)
(* choice at each call.                                                    *)
(***************************************************************************)
\* Mutant: a run_detached that raises is not followed by the thread strategy.
Strategy_no_fallback(mac, block, detached) ==
    IF mac /\ block THEN "sync"
    ELSE IF mac /\ detached # "absent" THEN "detached"
    ELSE "thread"

\* The strategy start(mac, block) ends with; detached is "absent", "ok" or "raises".
Strategy(mac, block, detached) ==
    IF mac /\ block THEN "sync"
    ELSE IF mac /\ detached = "ok" THEN "detached"
    ELSE "thread"

start(k, mac, block, detached, run_fails, visible_fails) ==
    LET icon == apps[k].icon
        how == Strategy(mac, block, detached)
        looping == [icon EXCEPT !.state = "running", !.loops = @ + 1]
        \* the calls start makes, in order; the worker thread's own icon.run() is
        \* not one of them
        calls == CASE how = "sync" -> <<"icon.run">>
                   [] how = "detached" -> <<"icon.run_detached">>
                   [] OTHER -> (IF mac /\ detached = "raises"
                                THEN <<"icon.run_detached">> ELSE <<>>)
                               \o <<"Thread.start", "icon.visible = True">>
    IN  /\ apps[k].status = "ok"
        /\ icon.loops < MaxStarts /\ icon.threads < MaxStarts
        /\ apps' = [apps EXCEPT ![k].icon =
                     CASE how = "sync" -> IF run_fails THEN icon ELSE looping
                       [] how = "detached" -> looping
                       [] OTHER ->
                          [(IF run_fails THEN icon ELSE looping) EXCEPT
                              !.threads = @ + 1,
                              !.visible = IF visible_fails THEN @ ELSE TRUE]]
        /\ last' = [Obs("start") EXCEPT !.app = k, !.info = how, !.pre = icon.state,
                                        !.args = <<mac, block, detached>>,
                                        !.calls = calls, !.count = icon.threads,
                                        !.raised = (how = "sync" /\ run_fails)]
        /\ UNCHANGED <<_ACTIONS, page, menuvars>>

\* Mutant: icon.stop() is called outside any try / except.
stop_no_try(k, native_fails) ==
    LET icon == apps[k].icon
    IN  /\ apps[k].status = "ok"
        /\ apps' = [apps EXCEPT ![k].icon =
                     IF native_fails THEN icon ELSE [icon EXCEPT !.state = "stopped"]]
        /\ last' = [Obs("stop") EXCEPT !.app = k, !.pre = icon.state,
                                       !.raised = native_fails,
                                       !.info = IF native_fails THEN "native stop failed"
                                                ELSE "native stop done"]
        /\ UNCHANGED <<_ACTIONS, page, menuvars>>

\* TrayApp.stop(); native_fails: icon.stop() raises.
stop(k, native_fails) ==
    LET icon == apps[k].icon
    IN  /\ apps[k].status = "ok"
        /\ apps' = [apps EXCEPT ![k].icon =
                     IF native_fails THEN icon ELSE [icon EXCEPT !.state = "stopped"]]
        /\ last' = [Obs("stop") EXCEPT !.app = k, !.pre = icon.state, !.raised = FALSE,
                                       !.info = IF native_fails THEN "native stop failed"
                                                ELSE "native stop done"]
        /\ UNCHANGED <<_ACTIONS, page, menuvars>>

\* The visible property: read (False when the native read raises) ...
visible_get(k, native_fails) ==
    /\ apps[k].status = "ok"
    /\ last' = [Obs("visible_get") EXCEPT !.app = k,
                    !.info = IF ~native_fails /\ apps[k].icon.visible THEN "True" ELSE "False"]
    /\ UNCHANGED <<_ACTIONS, apps, page, menuvars>>

\* ... and write (ignored when the native write raises).
visible_set(k, value, native_fails) ==
    /\ apps[k].status = "ok"
    /\ apps' = [apps EXCEPT ![k].icon.visible = IF native_fails THEN @ ELSE value]
    /\ last' = [Obs("visible_set") EXCEPT !.app = k]
    /\ UNCHANGED <<_ACTIONS, page, menuvars>>

(***************************************************************************)
(* Specifications.                                                         *)
(***************************************************************************)
Pages ==
    { [hooks |-> FALSE, base |-> "None", depth |-> 0] }
    \cup { [hooks |-> TRUE, base |-> b, depth |-> 0] : b \in {"None", "ok", "raises"} }

Init ==
    /\ _ACTIONS = EmptyDict
    /\ apps = <<>>
    /\ page \in Pages
    /\ last = NoObs
    /\ raw = <<>>
    /\ nodes = <<>>
    /\ emitted = <<>>
    /\ renodes = <<>>
    /\ stage = "idle"

\* The registry, the sessions' menus and the page: registration and dispatch.
Next ==
    \/ \E r \in Registrations : RegisterAction(r[1], r[2])
    \/ RegisteredActions
    \/ \E m \in { <<"a", NoFn>>, <<"zz", G>> } : MutateSnapshot(m[1], m[2])
    \/ Len(apps) < MaxApps
          /\ \E menu \in AppMenus, icon_fails \in BOOLEAN : TrayApp(menu, icon_fails)
    \/ \E k \in DOMAIN apps : \E path \in Paths(apps[k].menu) : MenuActivate(k, path)
    \/ \E actions \in ActionDicts, import_fails \in BOOLEAN :
          RegisterExtension(actions, import_fails)
    \/ \E evt \in Events : ExtensionEvent(evt)

Spec == Init /\ [][Next]_vars

\* One session's lifecycle.
NextLife ==
    \/ Len(apps) = 0 /\ \E menu \in AppMenus, icon_fails \in BOOLEAN : TrayApp(menu, icon_fails)
    \/ \E k \in DOMAIN apps, mac \in BOOLEAN, block \in BOOLEAN,
          detached \in {"absent", "ok", "raises"}, run_fails \in BOOLEAN,
          visible_fails \in BOOLEAN :
          start(k, mac, block, detached, run_fails, visible_fails)
    \/ \E k \in DOMAIN apps, native_fails \in BOOLEAN : stop(k, native_fails)
    \/ \E k \in DOMAIN apps, native_fails \in BOOLEAN : visible_get(k, native_fails)
    \/ \E k \in DOMAIN apps, value \in BOOLEAN, native_fails \in BOOLEAN :
          visible_set(k, value, native_fails)

SpecLife == Init /\ [][NextLife]_vars

\* Sessions built one after the other over one registry: registration, menu
\* building and menu activation.
NextBind ==
    \/ \E r \in Registrations : RegisterAction(r[1], r[2])
    \/ Len(apps) < MaxBuilds
          /\ \E menu \in AppMenus, icon_fails \in BOOLEAN : TrayApp(menu, icon_fails)
    \/ \E k \in DOMAIN apps : \E path \in Paths(apps[k].menu) : MenuActivate(k, path)
    \/ \E actions \in ActionDicts, import_fails \in BOOLEAN :
          RegisterExtension(actions, import_fails)

\* The page here has no on_extension_event: register_extension registers its
\* actions and installs no handler.
InitBind ==
    /\ _ACTIONS = EmptyDict
    /\ apps = <<>>
    /\ page = [hooks |-> FALSE, base |-> "None", depth |-> 0]
    /\ last = NoObs
    /\ raw = <<>>
    /\ nodes = <<>>
    /\ emitted = <<>>
    /\ renodes = <<>>
    /\ stage = "idle"

SpecBind == InitBind /\ [][NextBind]_vars

\* The menu pipeline on every menu description of RawMenus.
InitMenu ==
    /\ _ACTIONS = EmptyDict
    /\ apps = <<>>
    /\ page = [hooks |-> FALSE, base |-> "None", depth |-> 0]
    /\ last = NoObs
    /\ raw \in RawMenus
    /\ nodes = <<>>
    /\ emitted = <<>>
    /\ renodes = <<>>
    /\ stage = "input"

NextMenu == Normalise \/ Emit \/ Renormalise

SpecMenu == InitMenu /\ [][NextMenu]_vars

(***************************************************************************)
(* Claims.                                                                 *)
(***************************************************************************)
\* The registry callbacks a dispatch called, in order.
ActionCalls(trace) == SelectSeq(trace, LAMBDA c : c.who = "action")

\* The last operation was a dispatch of a name: a menu leaf was activated, or the
\* handler dispatched an event as its own and resolved a name that can be a key.
MenuDispatch == last.op = "menu"
EventDispatch == last.op = "event" /\ Own(last.evt) /\ last.name # Unhashable

C1_WitnessEvent ==
    /\ EventDispatch /\ last.name = "a" /\ last.trace # <<>>
    /\ last.trace[1].fn = G /\ last.evt.data = Str(JsonA)

\* C2: a dispatch of a name the registry has no entry for (a menu leaf, whose
\* action may also be absent, or an event) does not raise, calls no registry
\* callback and leaves the registry as it was.
C2_UnregisteredIsNoOp ==
    (MenuDispatch \/ EventDispatch) /\ last.name \notin DOMAIN _ACTIONS =>
        /\ ~last.raised
        /\ ActionCalls(last.trace) = <<>>
        /\ _ACTIONS = last.before

\* An event named an unregistered action while another action is registered and
\* the previous handler on the page raises.
C2_Witness ==
    /\ EventDispatch /\ last.name = "a" /\ "a" \notin DOMAIN _ACTIONS
    /\ page.base = "raises" /\ "open" \in DOMAIN _ACTIONS

\* A leaf with no action, and a leaf whose action is not registered, were activated.
C2_WitnessLeaf ==
    MenuDispatch /\ last.name = None /\ "a" \in DOMAIN _ACTIONS

C2_WitnessLeafUnregistered ==
    MenuDispatch /\ last.name = "a" /\ "a" \notin DOMAIN _ACTIONS

\* The callback a dispatch has for its name: the one bound to the menu leaf, or
\* the registry's entry for the event's name.
HasCallback ==
    \/ MenuDispatch /\ ItemAt(apps[last.app].menu, last.path).fn # NoFn
    \/ EventDispatch /\ last.name \in DOMAIN _ACTIONS

\* C3: when a registry callback raises during a dispatch, the dispatch returns
\* normally to its caller and the registry is unchanged; and the dispatch that
\* follows one in which the callback of another action raised still calls its
\* callback.
C3_RaiseIsContained ==
    /\ (MenuDispatch \/ EventDispatch) /\ Threw(last.trace) =>
          ~last.raised /\ _ACTIONS = last.before
    /\ last.after # None /\ last.after # last.name /\ HasCallback =>
          /\ ActionCalls(last.trace) # <<>>
          /\ \A i \in DOMAIN ActionCalls(last.trace) :
                ActionCalls(last.trace)[i].fn =
                   IF MenuDispatch THEN ItemAt(apps[last.app].menu, last.path).fn
                   ELSE _ACTIONS[last.name]

\* The callback of "a" raised in one dispatch, and the dispatch after it called the
\* callback of "open".
C3_Witness ==
    /\ last.after = "a" /\ last.name = "open" /\ HasCallback
    /\ last.trace # <<>> /\ ~last.raised

\* An event's callback raised, and then the previous handler raised too.
C3_WitnessEvent ==
    EventDispatch /\ Threw(last.trace) /\ page.base = "raises" /\ ~last.raised

\* A menu leaf's callback raised.
C3_WitnessMenu ==
    MenuDispatch /\ Threw(last.trace) /\ ~last.raised

\* C4 as stated: an event whose extension name is not "tray" goes to the previous
\* handler (when callable) and the registry is not consulted.
C4_Original ==
    last.op = "event" /\ last.evt.extension_name \notin {None, EXTENSION_NAME} =>
        /\ last.lookups = 0
        /\ ActionCalls(last.trace) = <<>>
        /\ PrevCallable(page.depth, page.base) =>
              last.trace # <<>> /\ last.trace[1].who = "prev" /\ last.trace[1].evt = last.evt

\* C4 amended: an event whose extension name is non-empty and not "tray" goes to
\* the previous handler (when callable), once and as it is, and the registry is
\* neither looked up nor called.
C4_ForeignForwarded ==
    last.op = "event" /\ last.evt.extension_name \notin {None, "", EXTENSION_NAME} =>
        /\ last.lookups = 0
        /\ ActionCalls(last.trace) = <<>>
        /\ \A i \in DOMAIN last.trace : last.trace[i].evt = last.evt
        /\ Cardinality({ i \in DOMAIN last.trace : last.trace[i].by = page.depth }) =
              IF PrevCallable(page.depth, page.base) THEN 1 ELSE 0

\* An event of another extension that names a registered action was forwarded.
C4_Witness ==
    /\ last.op = "event" /\ last.evt.extension_name = "other"
    /\ last.evt.name = "a" /\ "a" \in DOMAIN _ACTIONS
    /\ last.trace # <<>> /\ last.trace[1].who = "prev"

\* C5: stop returns normally whatever the state of the session and whether or not
\* the native stop raises.
C5_StopNeverRaises ==
    last.op = "stop" => ~last.raised

\* stop was called on a session already stopped, and the native stop raised.
C5_Witness ==
    last.op = "stop" /\ last.pre = "stopped" /\ last.info = "native stop failed"

C5_WitnessRunning ==
    last.op = "stop" /\ last.pre = "running" /\ last.info = "native stop failed"

C5_WitnessCreated ==
    last.op = "stop" /\ last.pre = "created"

\* C6: a node with children becomes a submenu item that holds no callback, and a
\* menu activation is always that of a leaf node and calls with that leaf's action.
C6_SubmenuHasNoCallback ==
    /\ \A k \in DOMAIN apps :
          \A p \in Paths(apps[k].menu) :
             NodeAt(apps[k].menu_nodes, p).children # <<>> =>
                /\ ItemAt(apps[k].menu, p).kind = "submenu"
                /\ ItemAt(apps[k].menu, p).fn = NoFn
                /\ Len(ItemAt(apps[k].menu, p).submenu) =
                      Len(NodeAt(apps[k].menu_nodes, p).children)
    /\ MenuDispatch =>
          LET node == NodeAt(apps[last.app].menu_nodes, last.path)
          IN  /\ node.children = <<>>
              /\ \A i \in DOMAIN last.trace : last.trace[i].arg.action = node.action

\* A leaf inside the submenu was activated while the action of the submenu's own
\* node ("exit") is registered.
C6_Witness ==
    /\ MenuDispatch /\ Len(last.path) = 2 /\ last.trace # <<>>
    /\ NodeAt(apps[last.app].menu_nodes, <<last.path[1]>>).action = "exit"
    /\ "exit" \in DOMAIN _ACTIONS

\* The children _normalise_menu reads: items when not empty, else children.
ChildData(item) == IF item.items # <<>> THEN item.items ELSE item.children

\* The label the claim gives: the first alias, in the order text, label, title,
\* that is present (nonempty = FALSE) or that has a non-empty value (TRUE).
ChosenLabel(item, nonempty) ==
    LET has(v) == IF nonempty THEN v \notin {None, ""} ELSE v # None
    IN  IF has(item.text) THEN item.text
        ELSE IF has(item.label) THEN item.label
        ELSE IF has(item.title) THEN item.title
        ELSE "Menu item"

RECURSIVE Labelled(_, _, _)
Labelled(items, ns, nonempty) ==
    /\ Len(ns) = Len(items)
    /\ \A i \in 1..Len(items) :
          /\ ns[i].text = ChosenLabel(items[i], nonempty)
          /\ Labelled(ChildData(items[i]), ns[i].children, nonempty)

\* C7 as stated: at every depth a node's text is the value of the first alias key
\* present in its record, "Menu item" when none is.
C7_Original ==
    stage # "input" => Labelled(raw, nodes, FALSE)

\* C7 amended: at every depth a node's text is the value of the first alias key, in
\* the order text, label, title, whose value is not empty, and "Menu item" when no
\* alias has a non-empty value; children are read from items when that is not
\* empty and from children otherwise.
C7_FirstNonEmptyAlias ==
    stage # "input" => Labelled(raw, nodes, TRUE)

\* A nested record with an empty text and a label was normalised to the label.
C7_Witness ==
    /\ stage = "normalised" /\ Len(raw) = 2
    /\ raw[1].text = "" /\ raw[1].label = "Lbl" /\ nodes[1].text = "Lbl"
    /\ raw[2].children = <<Deep>> /\ nodes[2].children[1].children[1].text = "Lk"

\* A description that uses only the keys text, action, disabled, checked and items.
RECURSIVE Canonical(_)
Canonical(items) ==
    \A i \in 1..Len(items) :
       /\ items[i].label = None /\ items[i].title = None /\ items[i].icon = None
       /\ items[i].children = <<>>
       /\ Canonical(items[i].items)

\* C8: for such a description, normalising the emitted form of the normalised
\* tree gives that tree again.
C8_RoundTrip ==
    stage = "renormalised" /\ Canonical(raw) => renodes = nodes

\* A round trip of a two-level description with an action, flags and an empty text.
C8_Witness ==
    /\ stage = "renormalised" /\ Canonical(raw) /\ Len(raw) = 2
    /\ raw[1].items = <<Kid1, Deep2>> /\ raw[2].text = ""
    /\ renodes[1].children[2].children[1].action = "a"
    /\ renodes[1].children[1].checked /\ renodes[2].text = "Menu item"

\* C9: register_action with an empty name or a fn that is not callable changes
\* nothing; otherwise the entry of that name becomes fn and no other entry changes.
C9_RegisterFrame ==
    last.op = "register_action" =>
        /\ ~last.raised
        /\ IF last.name \in {"", None} \/ last.fn \in {NotCallable, NoFn}
           THEN _ACTIONS = last.before
           ELSE /\ DOMAIN _ACTIONS = DOMAIN last.before \cup {last.name}
                /\ _ACTIONS[last.name] = last.fn
                /\ \A n \in DOMAIN last.before \ {last.name} : _ACTIONS[n] = last.before[n]

\* An entry was overwritten while another entry stayed; and a registration was ignored.
C9_Witness ==
    /\ last.op = "register_action" /\ last.name = "a" /\ last.fn = F
    /\ "a" \in DOMAIN last.before /\ last.before["a"] = G
    /\ "open" \in DOMAIN _ACTIONS

C9_WitnessIgnored ==
    /\ last.op = "register_action" /\ last.fn = NotCallable /\ "a" \in DOMAIN _ACTIONS

\* C10: no operation removes a name from the registry, and changing the mapping
\* registered_actions returned does not change the registry.
C10_RegistryOnlyGrows ==
    /\ DOMAIN last.before \subseteq DOMAIN _ACTIONS
    /\ last.op = "registered_actions" => last.snap = _ACTIONS /\ _ACTIONS = last.before
    /\ last.op = "mutate_snapshot" => _ACTIONS = last.before

\* A name was deleted from the snapshot and is still in the registry.
C10_Witness ==
    /\ last.op = "mutate_snapshot" /\ "a" \notin DOMAIN last.snap
    /\ "a" \in DOMAIN _ACTIONS /\ "zz" \in DOMAIN last.snap

\* The calls the handler installed last made itself during the last event, and
\* among them its calls of the previous handler.
TopCalls == { i \in DOMAIN last.trace : last.trace[i].by = page.depth }
TopPrevCalls == { i \in TopCalls : last.trace[i].who = "prev" }

\* C11: for an event with extension name "tray" the handler returns normally to
\* the event source, and when the previous handler is callable the handler calls
\* it exactly once, with the same event, after its own call of the action
\* callback if it makes one; this whether or not a callback was found or raised.
C11_PrevStillInvoked ==
    last.op = "event" /\ last.evt.extension_name = EXTENSION_NAME =>
        /\ ~last.raised
        /\ Cardinality(TopPrevCalls) = IF PrevCallable(page.depth, page.base) THEN 1 ELSE 0
        /\ \A i \in TopPrevCalls :
              /\ last.trace[i].evt = last.evt
              /\ \A j \in TopCalls \ TopPrevCalls : j < i

\* C11 on the events whose resolved action name can be a dict key.
C11_PrevInvokedWhenHashable ==
    last.op = "event" /\ last.evt.extension_name = EXTENSION_NAME
      /\ last.name # Unhashable => C11_PrevStillInvoked

\* The worker threads the last start call spawned.
Spawned == apps[last.app].icon.threads - last.count

C12_WitnessSync ==
    last.op = "start" /\ last.info = "sync" /\ apps[last.app].icon.threads = 0

C12_WitnessDetached ==
    /\ last.op = "start" /\ last.info = "detached"
    /\ apps[last.app].icon.threads = 0 /\ apps[last.app].icon.loops = 1

\* C13: over any sequence of start and stop calls on a session, at most one worker
\* thread is ever spawned for its icon.
C13_AtMostOneWorker ==
    \A k \in DOMAIN apps : apps[k].icon.threads <= 1

\* What C14 says of one step.  A register_action leaves every built menu as it
\* is.  A TrayApp construction leaves the menus built before as they are, and
\* binds each leaf of the new menu to the entry the registry holds under the
\* leaf's action when the menu is built (to none if there is none).  An
\* activation calls the callback its item was bound to, once, or nothing when
\* the item was bound to none, whatever the registry holds by then.
C14_Step ==
    /\ last'.op \in {"register_action", "register_extension"} => apps' = apps
    /\ last'.op = "TrayApp" =>
          /\ \A k \in DOMAIN apps : apps'[k] = apps[k]
          /\ ~last'.raised =>
                \A p \in Activatable(apps'[last'.app].menu) :
                   ItemAt(apps'[last'.app].menu, p).fn =
                      Get(_ACTIONS', Or(NodeAt(apps'[last'.app].menu_nodes, p).action, ""))
    /\ last'.op = "menu" =>
          /\ apps' = apps
          /\ LET item == ItemAt(apps[last'.app].menu, last'.path)
             IN  ActionCalls(last'.trace) =
                   IF item.fn # NoFn
                   THEN <<Call("action", 0, item.fn, Dict(item.name), NoEvt, Raises(item.fn))>>
                   ELSE <<>>

\* C14: a leaf's callback is the registry entry of its action at the time the menu
\* is built; a registration made after that does not change what the built item
\* calls, and is seen only by a menu built after it.
C14_BuildTimeBinding == [][C14_Step]_vars

\* The leaf "Hello" of two sessions, bound to the two callbacks registered under
\* "a" before each was built; the older item was activated and called the older
\* callback.
C14_Witness ==
    /\ Len(apps) = 2 /\ apps[1].status = "ok" /\ apps[2].status = "ok"
    /\ apps[1].menu # <<>> /\ apps[2].menu # <<>>
    /\ apps[1].menu[1].name = "a" /\ apps[2].menu[1].name = "a"
    /\ apps[1].menu[1].fn = G /\ apps[2].menu[1].fn = F
    /\ last.op = "menu" /\ last.app = 1 /\ last.path = <<1>>
    /\ last.trace # <<>> /\ last.trace[1].fn = G
    /\ "a" \in DOMAIN _ACTIONS /\ _ACTIONS["a"] = F

\* A leaf built when "a" was not registered was activated after "a" had been
\* registered: nothing was called.
C14_WitnessNoHandler ==
    /\ last.op = "menu" /\ last.name = "a" /\ last.trace = <<>>
    /\ "a" \in DOMAIN _ACTIONS

\* The first non-empty value of a sequence of values, None when there is none.
RECURSIVE FirstNonEmpty(_)
FirstNonEmpty(vs) ==
    IF vs = <<>> THEN None
    ELSE IF Head(vs) \notin {None, ""} THEN Head(vs)
    ELSE FirstNonEmpty(Tail(vs))

\* The payload the claim gives the callback: a string that is JSON is decoded,
\* once; anything else is passed as it is.
ClaimedPayload(data) ==
    IF data.t = "str" /\ json_loads(data.s).ok THEN json_loads(data.s).value ELSE data

\* The name the claim dispatches under: the first non-empty of the event's name,
\* the event's action and, when the payload is a mapping, its action key.
ClaimedName(evt) ==
    FirstNonEmpty(<<evt.name, evt.action>>
                  \o (IF ClaimedPayload(evt.data).t = "dict"
                      THEN <<ClaimedPayload(evt.data).action>> ELSE <<>>))

\* C15: an event the handler treats as its own is dispatched under that name: the
\* handler installed last calls the callback registered under it, if any and no
\* other, with that payload; and an event whose payload is a string that is not
\* JSON raises nothing and its callback, selected by the name or action
\* attribute, gets the string unchanged.
C15_NameResolution ==
    last.op = "event" /\ Own(last.evt) =>
        LET n == ClaimedName(last.evt)
            mine == SelectSeq(last.trace, LAMBDA c : c.who = "action" /\ c.by = page.depth)
        IN  /\ n # Unhashable =>
                  mine = IF n # None /\ n \in DOMAIN _ACTIONS
                         THEN <<Call("action", page.depth, _ACTIONS[n],
                                     ClaimedPayload(last.evt.data), NoEvt, Raises(_ACTIONS[n]))>>
                         ELSE <<>>
            /\ last.evt.data.t = "str" /\ ~json_loads(last.evt.data.s).ok =>
                  /\ ~last.raised
                  /\ n = FirstNonEmpty(<<last.evt.name, last.evt.action>>)
                  /\ \A i \in DOMAIN mine : mine[i].arg = last.evt.data

\* An event with an empty name and the action attribute "open", whose payload
\* names "a", was dispatched to the callback of "open" while "a" is registered.
C15_Witness ==
    /\ last.op = "event" /\ last.evt.name = "" /\ last.evt.action = "open"
    /\ last.evt.data = Dict("a") /\ "a" \in DOMAIN _ACTIONS /\ "open" \in DOMAIN _ACTIONS
    /\ last.trace # <<>> /\ last.trace[1].fn = _ACTIONS["open"]
    /\ _ACTIONS["open"] # _ACTIONS["a"]

\* A string payload of JSON was decoded and named the action.
C15_WitnessJson ==
    /\ last.op = "event" /\ last.evt.name = None /\ last.evt.data = Str(JsonA)
    /\ last.trace # <<>> /\ last.trace[1].arg = Dict("a")

\* A string payload that is not JSON went unchanged to the callback of the name.
C15_WitnessNotJson ==
    /\ last.op = "event" /\ last.evt.name = "a" /\ last.evt.data = Str("junk")
    /\ last.trace # <<>> /\ last.trace[1].arg = Str("junk") /\ last.trace[1].who = "action"

\* A JSON payload that decodes to a string is not decoded again and names nothing.
C15_WitnessJsonString ==
    /\ last.op = "event" /\ last.evt.data = Str(JsonStr) /\ "a" \in DOMAIN _ACTIONS
    /\ ActionCalls(last.trace) = <<>>

\* C16: stopped is terminal: once stop has stopped a session's icon, no step puts
\* the session back into the running state or runs the native loop again.
C16_StoppedIsTerminal ==
    [][\A k \in DOMAIN apps :
          apps[k].icon.state = "stopped" =>
             /\ apps'[k].icon.state = "stopped"
             /\ apps'[k].icon.loops = apps[k].icon.loops]_vars

\* C17: each register_extension call on a page chains onto the handler the page
\* has, so with k handlers installed an event of the page that is dispatched
\* under a registered name calls that name's callback k times, once by each
\* handler from the newest to the oldest, with the same payload.
C17_ChainedDispatch ==
    EventDispatch /\ last.name \in DOMAIN _ACTIONS =>
        LET calls == ActionCalls(last.trace)
        IN  /\ Len(calls) = page.depth
            /\ \A i \in DOMAIN calls :
                  /\ calls[i].by = page.depth + 1 - i
                  /\ calls[i].fn = _ACTIONS[last.name]
                  /\ calls[i].arg = calls[1].arg
            /\ ~last.raised

\* After two register_extension calls one event called the callback of "a" twice.
C17_Witness ==
    /\ EventDispatch /\ last.name = "a" /\ page.depth = 2
    /\ Len(ActionCalls(last.trace)) = 2 /\ page.base = "None"

\* The same with a callback that raises and a first handler that raises.
C17_WitnessRaising ==
    /\ EventDispatch /\ page.depth = 2 /\ page.base = "raises"
    /\ Len(ActionCalls(last.trace)) = 2 /\ Threw(last.trace)

Builtins == {"open", "exit"}

\* The leaves of session k that are bound to "open" or "exit" call the on_open /
\* on_exit of session k.
BuiltinLeaves(k) ==
    \A p \in Activatable(apps[k].menu) :
       ItemAt(apps[k].menu, p).name \in Builtins =>
          ItemAt(apps[k].menu, p).fn = Lambda(ItemAt(apps[k].menu, p).name, k)

\* C18 as stated: once a TrayApp has been constructed, after any sequence of
\* operations the entries "open" and "exit", and the leaves of the newest session
\* bound to them, call the on_open / on_exit of the TrayApp constructed last.
C18_Original ==
    Len(apps) >= 1 =>
        /\ \A n \in Builtins : n \in DOMAIN _ACTIONS /\ _ACTIONS[n] = Lambda(n, Len(apps))
        /\ BuiltinLeaves(Len(apps))

\* C18 amended: a TrayApp construction, also one that fails in pystray.Icon, sets
\* the entries "open" and "exit" to its own on_open / on_exit whatever the caller
\* had registered under them and changes no other entry; the leaves of every
\* session bound to these names call that session's on_open / on_exit; and from
\* then on each of the two entries is either the one of the TrayApp constructed
\* last or a callback the caller registered after that construction.
C18_BuiltinsOverwritten ==
    /\ last.op = "TrayApp" =>
          /\ last.app = Len(apps)
          /\ DOMAIN _ACTIONS = DOMAIN last.before \cup Builtins
          /\ \A n \in Builtins : _ACTIONS[n] = Lambda(n, last.app)
          /\ \A n \in DOMAIN last.before \ Builtins : _ACTIONS[n] = last.before[n]
    /\ \A k \in DOMAIN apps : BuiltinLeaves(k)
    /\ Len(apps) >= 1 =>
          \A n \in Builtins :
             /\ n \in DOMAIN _ACTIONS
             /\ _ACTIONS[n].kind = "lambda" => _ACTIONS[n] = Lambda(n, Len(apps))
    /\ last.op \in {"register_action", "register_extension"} =>
          \A n \in Builtins \cap DOMAIN last.before :
             _ACTIONS[n] = last.before[n] \/ _ACTIONS[n].kind = "user"

\* The second construction replaced the callback the caller had registered under
\* "open" after the first one; the first session's leaf still calls its own.
C18_Witness ==
    /\ last.op = "TrayApp" /\ last.app = 2
    /\ "open" \in DOMAIN last.before /\ last.before["open"] = G
    /\ _ACTIONS["open"] = Lambda("open", 2)
    /\ apps[1].status = "ok" /\ apps[1].menu[1].fn = Lambda("open", 1)

\* A construction that failed replaced the entries all the same.
C18_WitnessFailed ==
    /\ last.op = "TrayApp" /\ last.raised
    /\ "open" \in DOMAIN last.before /\ last.before["open"] = G
    /\ _ACTIONS["open"] = Lambda("open", last.app)

\* C19: the handler raises to the event source only when it forwards: the event
\* carries a non-empty extension name other than "tray" and the previous handler
\* raised; for an event with extension name "tray", empty or absent it returns
\* normally.
C19_RaisesOnlyWhenForwarding ==
    last.op = "event" /\ last.raised =>
        /\ last.evt.extension_name \notin {None, "", EXTENSION_NAME}
        /\ last.trace # <<>> /\ last.trace[1].who = "prev" /\ last.trace[1].threw

\* C19 on the events whose resolved action name can be a dict key.
C19_RaisesOnlyWhenForwardingHashable ==
    last.op = "event" /\ last.name # Unhashable => C19_RaisesOnlyWhenForwarding

====
